---------------------------- MODULE Spec2Model ----------------------------
(***************************************************************************)
(* Model of src/routes/main.py: the canonicaliser _norm and the request    *)
(* handler mapa() (canonical keys, totals coercion, left merge, linear     *)
(* bins, colour map, per-feature style).                                   *)
(*                                                                         *)
(* Text is a sequence of Unicode code points.  A cell of a table is a      *)
(* record: the missing value (NaN/None) has na = TRUE.                     *)
(***************************************************************************)
EXTENDS Integers, Sequences, FiniteSets, TLC

VARIABLES
    pc,        \* position inside mapa(), or "canon" while only _norm is exercised
    gdf,       \* the GeoDataFrame: a sequence of row records
    df_info,   \* the totals sheet: a sequence of row records
    min_val,   \* line 87
    max_val,   \* line 88
    bins,      \* lines 90-97
    cmap,      \* lines 100-113: the LinearColormap (index, colors)
    fill,      \* lines 117-128: fillColor of every feature handed to GeoJson
    a,         \* a text handed to _norm
    b          \* a second text, a variant of a

vars == <<pc, gdf, df_info, min_val, max_val, bins, cmap, fill, a, b>>

(***************************************************************************)
(* Bounds of the model.                                                    *)
(***************************************************************************)
MaxLen == 2        \* longest text drawn for _norm
MaxGeo == 2        \* most geometries in the GeoJSON
MaxRows == 2       \* most rows in the totals sheet
MaxSerie == 2      \* most regions in the runs that explore the scale
MaxVal == 16       \* totals 0..MaxVal in the runs that explore the scale

-----------------------------------------------------------------------------
(***************************************************************************)
(* Text: str.strip, str.upper, unicodedata.normalize("NFKD"),              *)
(* encode("ascii", "ignore").                                              *)
(***************************************************************************)

Text(s) == [na |-> FALSE, s |-> s]
Missing == [na |-> TRUE, s |-> <<>>]

\* str.isspace of the code points used here: SPACE, TAB, NO-BREAK SPACE
IsSpace(c) == c \in {32, 9, 160}

\* COMBINING ACUTE ACCENT, COMBINING TILDE
IsMark(c) == c \in {769, 771}

IsAsciiLetter(c) == c \in 65..90 \/ c \in 97..122

\* str.upper on one code point: ASCII a-z and Latin-1 a-grave..thorn (not the
\* division sign 247) are 32 above their capitals.
UpperChar(c) ==
    IF c \in 97..122 THEN c - 32
    ELSE IF c \in 224..254 /\ c # 247 THEN c - 32
    ELSE c

\* str.lower on one code point (used to build case variants of a text)
LowerChar(c) ==
    IF c \in 65..90 THEN c + 32
    ELSE IF c \in 192..222 /\ c # 215 THEN c + 32
    ELSE c

\* NFKD of one code point: the accented Latin-1 letters used in the region
\* names decompose into base letter + combining mark; NO-BREAK SPACE has the
\* compatibility decomposition SPACE; the others are their own decomposition.
NfkdChar(c) ==
    CASE c = 193 -> <<65, 769>>      \* A acute
      [] c = 201 -> <<69, 769>>      \* E acute
      [] c = 209 -> <<78, 771>>      \* N tilde
      [] c = 211 -> <<79, 769>>      \* O acute
      [] c = 225 -> <<97, 769>>      \* a acute
      [] c = 233 -> <<101, 769>>     \* e acute
      [] c = 241 -> <<110, 771>>     \* n tilde
      [] c = 243 -> <<111, 769>>     \* o acute
      [] c = 160 -> <<32>>
      [] OTHER -> <<c>>

RECURSIVE Strip(_)
Strip(s) ==
    IF s = <<>> THEN s
    ELSE IF IsSpace(Head(s)) THEN Strip(Tail(s))
    ELSE IF IsSpace(s[Len(s)]) THEN Strip(SubSeq(s, 1, Len(s) - 1))
    ELSE s

Upper(s) == [i \in 1..Len(s) |-> UpperChar(s[i])]

RECURSIVE Nfkd(_)
Nfkd(s) == IF s = <<>> THEN <<>> ELSE NfkdChar(Head(s)) \o Nfkd(Tail(s))

\* .encode("ascii", "ignore").decode("ascii"): code points above 127 vanish
AsciiIgnore(s) == SelectSeq(s, LAMBDA c : c < 128)

\* A canonicaliser that forgets to strip (a mutant of _norm)
NormNoStrip(cell) ==
    IF cell.na THEN <<>> ELSE AsciiIgnore(Nfkd(Upper(cell.s)))

\* def _norm(s), lines 17-23
_norm(cell) ==
    IF cell.na THEN <<>>
    ELSE AsciiIgnore(Nfkd(Upper(Strip(cell.s))))


-----------------------------------------------------------------------------
(***************************************************************************)
(* Numbers of a pandas column: a float that may be NaN.                    *)
(***************************************************************************)

Num(v) == [nan |-> FALSE, v |-> v]
NaN == [nan |-> TRUE, v |-> 0]

\* A raw cell of the sheet's Total column: empty, a text that is no number,
\* a number, or a text that spells a number.
RawNaN == [kind |-> "nan", v |-> 0]
RawText == [kind |-> "text", v |-> 0]
RawInt(v) == [kind |-> "int", v |-> v]
RawStr(v) == [kind |-> "str", v |-> v]

\* pd.to_numeric(x, errors="coerce"), line 45
to_numeric_coerce(raw) ==
    CASE raw.kind = "nan" -> NaN
      [] raw.kind = "text" -> NaN
      [] OTHER -> Num(raw.v)

\* .fillna(1) instead of .fillna(0) (a mutant of fillna0_int)
fillna1_int(n) == IF n.nan THEN 1 ELSE n.v

\* .fillna(0).astype(int), lines 45 and 50
fillna0_int(n) == IF n.nan THEN 0 ELSE n.v

-----------------------------------------------------------------------------
(***************************************************************************)
(* The left merge of line 49.                                              *)
(***************************************************************************)

WithTotal(l, t) ==
    [geometry |-> l.geometry, REGION |-> l.REGION,
     REGION_NORM |-> l.REGION_NORM, Total |-> t]

Matches(l, right) ==
    SelectSeq(right, LAMBDA r : r.REGION_NORM = l.REGION_NORM)

\* An inner join: a left row without a match is dropped (a mutant of MergeRow)
MergeRowInner(l, right) ==
    LET m == Matches(l, right)
    IN  [j \in 1..Len(m) |-> WithTotal(l, Num(m[j].Total))]

\* The rows a left row contributes to a how="left" merge: one per matching
\* right row, in the right table's order, or one with NaN when none matches.
MergeRow(l, right) ==
    LET m == Matches(l, right)
    IN  IF m = <<>> THEN << WithTotal(l, NaN) >>
        ELSE [j \in 1..Len(m) |-> WithTotal(l, Num(m[j].Total))]

\* gdf.merge(df_info[["REGION_NORM", "Total"]], on="REGION_NORM", how="left")
RECURSIVE LeftMerge(_, _)
LeftMerge(left, right) ==
    IF left = <<>> THEN <<>>
    ELSE MergeRow(Head(left), right) \o LeftMerge(Tail(left), right)

-----------------------------------------------------------------------------
(***************************************************************************)
(* The scale: min, max, bins (lines 86-97).                                *)
(***************************************************************************)

SeqRange(s) == {s[i] : i \in 1..Len(s)}
SetMin(S) == CHOOSE x \in S : \A y \in S : x <= y
SetMax(S) == CHOOSE x \in S : \A y \in S : x >= y

\* serie = gdf["Total"]
Serie(g) == [i \in 1..Len(g) |-> g[i].Total]

\* The differences d below 453 for which the IEEE double product 7 * (d / 7)
\* is below d, so that int(7 * step) is d - 1 (line 96 with i = 7).
FloatDrift == {61, 115, 122, 230, 237, 244, 251}

\* int(i * step) with step = d / 7 as a double, 0 <= i <= 7, 0 < d < 453:
\* for i < 7 the double product truncates to floor(i * d / 7).
IntOfStep(i, d) ==
    IF i = 7 /\ d \in FloatDrift THEN d - 1 ELSE (i * d) \div 7

\* Eight steps instead of seven (a mutant of LinearBins)
LinearBins8(lo, hi) ==
    [k \in 1..8 |-> IF k = 8 THEN hi ELSE lo + (((k - 1) * (hi - lo)) \div 8)]

\* The last bin is not forced to the maximum (a mutant of LinearBins)
LinearBinsNoFix(lo, hi) ==
    [k \in 1..8 |-> lo + IntOfStep(k - 1, hi - lo)]

\* Lines 95-97: bins[i] = min_val + int(i * step), i = 0..7; bins[-1] = max_val
LinearBins(lo, hi) ==
    [k \in 1..8 |-> IF k = 8 THEN hi ELSE lo + IntOfStep(k - 1, hi - lo)]

\* Line 92: list(range(min_val, min_val + 9))
DegenerateBins(lo) == [k \in 1..9 |-> lo + (k - 1)]

\* Lines 90-97
Bins(lo, hi) == IF hi - lo = 0 THEN DegenerateBins(lo) ELSE LinearBins(lo, hi)

-----------------------------------------------------------------------------
(***************************************************************************)
(* The colour map (lines 100-113) and the style function (lines 117-119).  *)
(* LinearColormap spreads its colours over index[i] = vmin + (vmax - vmin) *)
(* * i / 7, i = 0..7.  The index is kept as the exact numerators over 7;   *)
(* a colour is its four bytes R, G, B, A.                                  *)
(***************************************************************************)

\* colors=[...], lines 101-110
Palette ==
    << <<255, 255, 204, 255>>,     \* #ffffcc
       <<255, 237, 160, 255>>,     \* #ffeda0
       <<254, 217, 118, 255>>,     \* #fed976
       <<254, 178, 76, 255>>,      \* #feb24c
       <<253, 141, 60, 255>>,      \* #fd8d3c
       <<252, 78, 42, 255>>,       \* #fc4e2a
       <<227, 26, 28, 255>>,       \* #e31a1c
       <<189, 0, 38, 255>> >>      \* #bd0026

\* LinearColormap(colors=Palette) without vmin and vmax, which default to 0
\* and 1 (a mutant of LinearColormap)
LinearColormapDefaults(lo, hi) ==
    [index7 |-> [k \in 1..8 |-> k - 1], colors |-> Palette]

\* LinearColormap(colors=Palette, vmin=lo, vmax=hi)
LinearColormap(lo, hi) ==
    [index7 |-> [k \in 1..8 |-> 7 * lo + (hi - lo) * (k - 1)],
     colors |-> Palette]

\* int(u * 255.9999) of the channel u = ((den - num) * c0 + num * c1) / (255 * den)
\* mixed from the bytes c0 and c1 with weight num / den
MixByte(c0, c1, num, den) ==
    LET n == (den - num) * c0 + num * c1
        q == n \div den
        r == n % den
    IN  IF r * 2550000 + n * 9999 >= den * 2550000 THEN q + 1 ELSE q

\* s(v), line 119: the colour of the value v
ColorOf(cm, v) ==
    LET x == 7 * v
    IN  IF x <= cm.index7[1] THEN cm.colors[1]
        ELSE IF x >= cm.index7[8] THEN cm.colors[8]
        ELSE LET i == Cardinality({k \in 1..8 : cm.index7[k] < x})
                 num == x - cm.index7[i]
                 den == cm.index7[i + 1] - cm.index7[i]
             IN  [j \in 1..4 |->
                    MixByte(cm.colors[i][j], cm.colors[i + 1][j], num, den)]

-----------------------------------------------------------------------------
(***************************************************************************)
(* Inputs: the two files mapa() reads.                                     *)
(***************************************************************************)

SeqsUpTo(S, n) == UNION {[1..k -> S] : k \in 0..n}

\* nomb_uger of the GeoJSON: "San José", "Alajuela ", "Limón", "Heredia"
GeoNames ==
    << Text(<<83, 97, 110, 32, 74, 111, 115, 233>>),
       Text(<<65, 108, 97, 106, 117, 101, 108, 97, 32>>),
       Text(<<76, 105, 109, 243, 110>>),
       Text(<<72, 101, 114, 101, 100, 105, 97>>) >>

\* Región of the sheet: "SAN JOSE", "alajuela", " san josé"
InfoNames ==
    { Text(<<83, 65, 78, 32, 74, 79, 83, 69>>),
      Text(<<97, 108, 97, 106, 117, 101, 108, 97>>),
      Text(<<32, 115, 97, 110, 32, 106, 111, 115, 233>>) }

\* Total of the sheet: empty, "abc", "120", 5
InfoTotals == {RawNaN, RawText, RawStr(120), RawInt(5)}

\* The geometries of a run: every sequence of the first three names
GeoInputs ==
    {[i \in 1..Len(g) |-> [geometry |-> i, REGION |-> g[i]]] :
        g \in SeqsUpTo({GeoNames[1], GeoNames[2], GeoNames[3]}, MaxGeo)}

InfoInputs ==
    SeqsUpTo([Region : InfoNames, Total : InfoTotals], MaxRows)

\* Totals of the runs that explore the scale: a few negative ones, 0..MaxVal,
\* and two large ones whose differences to the others include 61, 115 and 122
ScaleValues == ((0 - 2)..MaxVal) \cup {61, 120}

Unset == [index7 |-> <<>>, colors |-> <<>>]

InitRest ==
    /\ min_val = 0
    /\ max_val = 0
    /\ bins = <<>>
    /\ cmap = Unset
    /\ fill = <<>>

\* After lines 29-32 and 39-42: both files are loaded
Init ==
    /\ pc = "norm_gdf"
    /\ gdf \in GeoInputs
    /\ df_info \in InfoInputs
    /\ InitRest
    /\ a = Text(<<>>)
    /\ b = Text(<<>>)

\* The same, with one sheet row per region, spelt as the region, and numeric
InitScale ==
    /\ pc = "norm_gdf"
    /\ \E k \in 0..MaxSerie : \E v \in [1..k -> ScaleValues] :
          /\ gdf = [i \in 1..k |-> [geometry |-> i, REGION |-> GeoNames[i]]]
          /\ df_info = [i \in 1..k |-> [Region |-> GeoNames[i], Total |-> RawInt(v[i])]]
    /\ InitRest
    /\ a = Text(<<>>)
    /\ b = Text(<<>>)

-----------------------------------------------------------------------------
(***************************************************************************)
(* mapa(), one action per statement of the core.                           *)
(***************************************************************************)

\* Line 35: gdf["REGION_NORM"] = gdf["REGION"].apply(_norm)
NormGdf ==
    /\ pc = "norm_gdf"
    /\ gdf' = [i \in 1..Len(gdf) |->
                 [geometry |-> gdf[i].geometry, REGION |-> gdf[i].REGION,
                  REGION_NORM |-> _norm(gdf[i].REGION)]]
    /\ pc' = "norm_info"
    /\ UNCHANGED <<df_info, min_val, max_val, bins, cmap, fill, a, b>>

\* Line 43: df_info["REGION_NORM"] = df_info["Región"].apply(_norm)
NormInfo ==
    /\ pc = "norm_info"
    /\ df_info' = [i \in 1..Len(df_info) |->
                     [Region |-> df_info[i].Region, Total |-> df_info[i].Total,
                      REGION_NORM |-> _norm(df_info[i].Region)]]
    /\ pc' = "coerce"
    /\ UNCHANGED <<gdf, min_val, max_val, bins, cmap, fill, a, b>>

\* Lines 44-46: Total = pd.to_numeric(Total, errors="coerce").fillna(0).astype(int)
CoerceTotals ==
    /\ pc = "coerce"
    /\ df_info' = [i \in 1..Len(df_info) |->
                     [Region |-> df_info[i].Region,
                      Total |-> fillna0_int(to_numeric_coerce(df_info[i].Total)),
                      REGION_NORM |-> df_info[i].REGION_NORM]]
    /\ pc' = "merge"
    /\ UNCHANGED <<gdf, min_val, max_val, bins, cmap, fill, a, b>>

\* Line 49
Merge ==
    /\ pc = "merge"
    /\ gdf' = LeftMerge(gdf, df_info)
    /\ pc' = "fill"
    /\ UNCHANGED <<df_info, min_val, max_val, bins, cmap, fill, a, b>>

\* Line 50: gdf["Total"] = gdf["Total"].fillna(0).astype(int)
FillTotals ==
    /\ pc = "fill"
    /\ gdf' = [i \in 1..Len(gdf) |-> WithTotal(gdf[i], fillna0_int(gdf[i].Total))]
    /\ pc' = "minmax"
    /\ UNCHANGED <<df_info, min_val, max_val, bins, cmap, fill, a, b>>

\* An empty serie silently scaled as if its only total were 0 (a mutant of
\* MinMaxRaises)
MinMaxDefaults ==
    /\ pc = "minmax"
    /\ gdf = <<>>
    /\ min_val' = 0
    /\ max_val' = 0
    /\ pc' = "bins"
    /\ UNCHANGED <<gdf, df_info, bins, cmap, fill, a, b>>

\* Lines 86-88 on an empty serie: serie.min() is NaN and int(NaN) raises
\* ValueError, which leaves mapa()
MinMaxRaises ==
    /\ pc = "minmax"
    /\ gdf = <<>>
    /\ pc' = "error"
    /\ UNCHANGED <<gdf, df_info, min_val, max_val, bins, cmap, fill, a, b>>

\* Lines 86-88
MinMax ==
    /\ pc = "minmax"
    /\ gdf # <<>>
    /\ min_val' = SetMin(SeqRange(Serie(gdf)))
    /\ max_val' = SetMax(SeqRange(Serie(gdf)))
    /\ pc' = "bins"
    /\ UNCHANGED <<gdf, df_info, bins, cmap, fill, a, b>>

\* Lines 90-97
BuildBins ==
    /\ pc = "bins"
    /\ bins' = Bins(min_val, max_val)
    /\ pc' = "cmap"
    /\ UNCHANGED <<gdf, df_info, min_val, max_val, cmap, fill, a, b>>

\* Lines 100-113
BuildCmap ==
    /\ pc = "cmap"
    /\ cmap' = LinearColormap(min_val, max_val)
    /\ pc' = "style"
    /\ UNCHANGED <<gdf, df_info, min_val, max_val, bins, fill, a, b>>

\* Lines 117-128: GeoJson styles every feature of gdf with _style
Style ==
    /\ pc = "style"
    /\ fill' = [i \in 1..Len(gdf) |-> ColorOf(cmap, gdf[i].Total)]
    /\ pc' = "done"
    /\ UNCHANGED <<gdf, df_info, min_val, max_val, bins, cmap, a, b>>

Next ==
    \/ NormGdf
    \/ NormInfo
    \/ CoerceTotals
    \/ Merge
    \/ FillTotals
    \/ MinMaxRaises
    \/ MinMax
    \/ BuildBins
    \/ BuildCmap
    \/ Style

Spec == Init /\ [][Next]_vars

SpecScale == InitScale /\ [][Next]_vars

-----------------------------------------------------------------------------
(***************************************************************************)
(* _norm on its own: a is any short text (or the missing value) and b      *)
(* starts as a; every action changes b in its letter case, in its          *)
(* surrounding whitespace or in a diacritic on a letter.                   *)
(***************************************************************************)

\* a, A-acute, n-tilde, N, COMBINING ACUTE, SPACE, NO-BREAK SPACE, o-slash
Alphabet == {97, 193, 241, 78, 769, 32, 160, 248}

IsLetter(c) == IsAsciiLetter(c) \/ (c \in 192..255 /\ c \notin {215, 223, 247, 255})

\* The letter with its accent, for the letters NfkdChar decomposes
Accented(c) ==
    CASE c = 65 -> 193 [] c = 69 -> 201 [] c = 78 -> 209 [] c = 79 -> 211
      [] c = 97 -> 225 [] c = 101 -> 233 [] c = 110 -> 241 [] c = 111 -> 243
      [] OTHER -> c

Replace(s, i, c) == [s EXCEPT ![i] = c]
InsertAfter(s, i, c) == SubSeq(s, 1, i) \o <<c>> \o SubSeq(s, i + 1, Len(s))
Remove(s, i) == SubSeq(s, 1, i - 1) \o SubSeq(s, i + 1, Len(s))

InitNorm ==
    /\ pc = "canon"
    /\ gdf = <<>>
    /\ df_info = <<>>
    /\ InitRest
    /\ a \in {Missing} \cup {Text(s) : s \in SeqsUpTo(Alphabet, MaxLen)}
    /\ b = a

NormRest == UNCHANGED <<pc, gdf, df_info, min_val, max_val, bins, cmap, fill, a>>

\* One letter of b changes case
ChangeCase ==
    /\ ~b.na
    /\ \E i \in 1..Len(b.s) : \E c \in {UpperChar(b.s[i]), LowerChar(b.s[i])} :
          /\ c # b.s[i]
          /\ b' = Text(Replace(b.s, i, c))
    /\ NormRest

\* One letter of b gains its accent (precomposed)
AddAccent ==
    /\ ~b.na
    /\ \E i \in 1..Len(b.s) :
          /\ Accented(b.s[i]) # b.s[i]
          /\ b' = Text(Replace(b.s, i, Accented(b.s[i])))
    /\ NormRest

\* One accented letter of b loses its accent
DropAccent ==
    /\ ~b.na
    /\ \E i \in 1..Len(b.s) : \E c \in {65, 69, 78, 79, 97, 101, 110, 111} :
          /\ Accented(c) = b.s[i]
          /\ b' = Text(Replace(b.s, i, c))
    /\ NormRest

\* One letter of b gains a combining mark
AddMark ==
    /\ ~b.na
    /\ Len(b.s) <= MaxLen
    /\ \E i \in 1..Len(b.s) : \E m \in {769, 771} :
          /\ IsLetter(b.s[i])
          /\ b' = Text(InsertAfter(b.s, i, m))
    /\ NormRest

\* One letter of b loses a combining mark
DropMark ==
    /\ ~b.na
    /\ \E i \in 2..Len(b.s) :
          /\ IsMark(b.s[i])
          /\ IsLetter(b.s[i - 1])
          /\ b' = Text(Remove(b.s, i))
    /\ NormRest

\* b gains a whitespace character at one end
Pad ==
    /\ ~b.na
    /\ Len(b.s) <= MaxLen
    /\ \E w \in {32, 9, 160} :
          \/ b' = Text(<<w>> \o b.s)
          \/ b' = Text(b.s \o <<w>>)
    /\ NormRest

\* b loses a whitespace character at one end
Trim ==
    /\ ~b.na
    /\ b.s # <<>>
    /\ \/ IsSpace(Head(b.s)) /\ b' = Text(Tail(b.s))
       \/ IsSpace(b.s[Len(b.s)]) /\ b' = Text(SubSeq(b.s, 1, Len(b.s) - 1))
    /\ NormRest

NextNorm ==
    \/ ChangeCase
    \/ AddAccent
    \/ DropAccent
    \/ AddMark
    \/ DropMark
    \/ Pad
    \/ Trim

SpecNorm == InitNorm /\ [][NextNorm]_vars

\* C7: texts that differ only in letter case, surrounding whitespace or
\* diacritics on letters have the same canonical key, and the empty text and
\* the missing value both have the empty key.
C7_NormInsensitive ==
    pc = "canon" =>
        /\ _norm(a) = _norm(b)
        /\ (a.na \/ a.s = <<>>) => _norm(a) = <<>>

-----------------------------------------------------------------------------
(***************************************************************************)
(* Properties of mapa().                                                   *)
(***************************************************************************)

Reconciled == {"minmax", "bins", "cmap", "style", "done", "error"}
Scaled == {"cmap", "style", "done"}
Coloured == {"style", "done"}

NonDecreasing(s) == \A k \in 1..(Len(s) - 1) : s[k] <= s[k + 1]

\* The total of the last sheet row whose key is the key of the row l of gdf
LastMatch(l) == LET m == Matches(l, df_info) IN m[Len(m)].Total

\* C1: the merge yields exactly one record per input geometry, in the input
\* order, however many sheet rows share a geometry's key.
C1_OneRecordPerGeometry ==
    [][pc = "merge" =>
          /\ Len(gdf') = Len(gdf)
          /\ \A i \in 1..Len(gdf) : gdf'[i].geometry = gdf[i].geometry]_vars

\* C2: when all totals are equal the bins are the 8 consecutive integers
\* min, min+1, ..., min+7.
C2_DegenerateEight ==
    (pc \in Scaled /\ max_val = min_val) =>
        bins = [k \in 1..8 |-> min_val + (k - 1)]

\* C3 as stated: every non-empty serie gives exactly 8 bins, the first the
\* minimum, the eighth the maximum, non-decreasing.
C3_AsStated ==
    pc \in Scaled =>
        /\ Len(bins) = 8
        /\ bins[1] = min_val
        /\ bins[8] = max_val
        /\ NonDecreasing(bins)

\* C3 amended: every non-empty serie gives non-decreasing bins whose first is
\* the minimum; when max > min there are exactly 8 and the eighth is the
\* maximum.
C3_ScaleShape ==
    pc \in Scaled =>
        /\ bins[1] = min_val
        /\ NonDecreasing(bins)
        /\ max_val > min_val => (Len(bins) = 8 /\ bins[8] = max_val)

C3_Witness ==
    /\ pc = "cmap"
    /\ max_val - min_val \in FloatDrift
    /\ Len(bins) = 8

\* C4: a geometry whose key is the key of no sheet row stays in the table
\* and its reconciled Total is exactly 0.
C4_UnmatchedIsZero ==
    /\ [](pc \in Reconciled =>
            \A i \in 1..Len(gdf) :
                Matches(gdf[i], df_info) = <<>> => gdf[i].Total = 0)
    /\ [][pc = "merge" =>
            \A i \in 1..Len(gdf) :
                Matches(gdf[i], df_info) = <<>> =>
                    \E j \in 1..Len(gdf') : gdf'[j].geometry = gdf[i].geometry]_vars

C4_Witness ==
    /\ pc = "minmax"
    /\ df_info # <<>>
    /\ \E i \in 1..Len(gdf) :
          Matches(gdf[i], df_info) = <<>> /\ gdf[i].Total = 0

\* The scenario of C5: regions "San José", "Alajuela " and sheet rows
\* ("SAN JOSE", "120"), ("alajuela", "abc")
ScenarioGdf ==
    << [geometry |-> 1, REGION |-> GeoNames[1]],
       [geometry |-> 2, REGION |-> GeoNames[2]] >>

ScenarioInfo ==
    << [Region |-> Text(<<83, 65, 78, 32, 74, 79, 83, 69>>), Total |-> RawStr(120)],
       [Region |-> Text(<<97, 108, 97, 106, 117, 101, 108, 97>>), Total |-> RawText] >>

C6_EmptyRaises ==
    (pc \in Reconciled \ {"minmax"} /\ gdf = <<>>) =>
        /\ pc = "error"
        /\ bins = <<>>
        /\ cmap = Unset
        /\ fill = <<>>

C6_Witness == pc = "error" /\ gdf = <<>> /\ df_info # <<>>

C7_Witness ==
    /\ pc = "canon"
    /\ ~a.na
    /\ Len(b.s) > Len(a.s)
    /\ \E i \in 1..Len(a.s) : IsLetter(a.s[i]) /\ a.s[i] \notin SeqRange(b.s)
    /\ _norm(a) # <<>>

\* How far beyond the minimum and the maximum the colour map is probed
Probe == 3

\* C8 as stated: for every scale, degenerate or not, min has the first
\* palette colour, max the last, and values outside [min, max] the colour of
\* the nearer end.
C8_AsStated ==
    pc \in Coloured =>
        /\ ColorOf(cmap, min_val) = Palette[1]
        /\ ColorOf(cmap, max_val) = Palette[8]
        /\ \A v \in (min_val - Probe)..min_val : ColorOf(cmap, v) = ColorOf(cmap, min_val)
        /\ \A v \in max_val..(max_val + Probe) : ColorOf(cmap, v) = ColorOf(cmap, max_val)

\* C8 amended: when max > min, min has the first palette colour, max the
\* last, and values outside [min, max] the colour of the nearer end; when
\* max = min that value and every value below it have the first colour and
\* every value above it the last.  The features are filled accordingly.
C8_EndsAndClamp ==
    /\ pc \in Coloured =>
        /\ \A v \in (min_val - Probe)..min_val : ColorOf(cmap, v) = Palette[1]
        /\ \A v \in (max_val + 1)..(max_val + Probe) : ColorOf(cmap, v) = Palette[8]
        /\ max_val > min_val => ColorOf(cmap, max_val) = Palette[8]
    /\ pc = "done" =>
        \A i \in 1..Len(gdf) :
            /\ gdf[i].Total = min_val => fill[i] = Palette[1]
            /\ (gdf[i].Total = max_val /\ max_val > min_val) => fill[i] = Palette[8]

C8_Witness ==
    /\ pc = "done"
    /\ max_val > min_val
    /\ \E i, j \in 1..Len(gdf) : fill[i] = Palette[1] /\ fill[j] = Palette[8]

\* C9: when max > min, bins[i] = min + floor(i * (max - min) / 7) for i in
\* 0..6 and bins[7] = max.
C9_LinearFormula ==
    (pc \in Scaled /\ max_val > min_val) =>
        /\ Len(bins) = 8
        /\ \A i \in 0..6 : bins[i + 1] = min_val + ((i * (max_val - min_val)) \div 7)
        /\ bins[8] = max_val

C9_Witness ==
    /\ pc = "cmap"
    /\ min_val < 0
    /\ (max_val - min_val) % 7 # 0
    /\ bins[7] < max_val

\* C10: when several sheet rows share a key, every geometry with that key
\* has the total of the last of them and the earlier totals do not appear.
C10_LastWriteWins ==
    pc \in Reconciled =>
        \A i \in 1..Len(gdf) :
            Len(Matches(gdf[i], df_info)) >= 2 => gdf[i].Total = LastMatch(gdf[i])

=============================================================================
